---- MODULE Spec2Model ----
(***************************************************************************)
(* Role bindings and the aggregate role_type of a user, as implemented by  *)
(* RoleBindingService (service/role_binding_service.py) over the User      *)
(* model (model/user/database.py).                                         *)
(*                                                                         *)
(* The MFA enrolment of a user is that of UserProfileService              *)
(* (service/user_profile_service.py).                                      *)
(*                                                                         *)
(* Five specifications share the variables:                                *)
(*   Spec       every create / update_role / delete is one atomic step;    *)
(*   SpecSteps  one operation in flight, its store writes are separate     *)
(*              steps and a store write may raise;                         *)
(*   SpecAgg    _get_latest_role_type applied as a left fold to inputs     *)
(*              drawn from the role_type values;                           *)
(*   SpecRace   concurrent create calls, the read of the user, the user    *)
(*              write and the binding write being separate steps;          *)
(*   SpecMfa    enable_mfa / disable_mfa / confirm_mfa, each one step.     *)
(***************************************************************************)
EXTENDS Integers, Sequences, FiniteSets, TLC

VARIABLES
    users,          \* user_id -> stored User.role_type
    role_bindings,  \* role_binding_id -> stored RoleBinding
    next_id,        \* next role_binding_id the binding store hands out
    last,           \* the latest operation: its request and its outcome
    pc,             \* "idle" | "writing" (SpecSteps: between store writes)
    pending,        \* store writes the operation in flight still has to do
    agg_seed,       \* SpecAgg: seed of the fold
    agg_seq,        \* SpecAgg: the role types folded so far
    agg_before,     \* SpecAgg: accumulator before the latest application
    agg_out,        \* SpecAgg: accumulator after the latest application
    calls,          \* SpecRace: call -> the create call's position and locals
    last_user_writer, \* SpecRace: user_id -> the call that wrote the user last
    mfa,            \* SpecMfa: user_id -> stored User.mfa
    mfa_last        \* SpecMfa: the latest MFA operation and the one before

vars == <<users, role_bindings, next_id, last, pc, pending,
          agg_seed, agg_seq, agg_before, agg_out,
          calls, last_user_writer, mfa, mfa_last>>
raceVars == <<calls, last_user_writer>>
mfaVars == <<mfa, mfa_last>>
rbVars == <<users, role_bindings, next_id, last, pc, pending>>
aggVars == <<agg_seed, agg_seq, agg_before, agg_out>>

----------------------------------------------------------------------------
(* Bounds *)

MaxRoleBindings == 2    \* role_binding_ids handed out in one behaviour of Spec
MaxStepRoleBindings == 1 \* the same, in one behaviour of SpecSteps
MaxFoldLen == 3         \* role types folded in one behaviour of SpecAgg

----------------------------------------------------------------------------
(* Values *)

None == "None"
OK == "OK"
ERROR_NOT_FOUND == "ERROR_NOT_FOUND"
ERROR_NOT_ALLOWED_ROLE_TYPE == "ERROR_NOT_ALLOWED_ROLE_TYPE"
ERROR_STORE_WRITE == "ERROR_STORE_WRITE"

\* User.role_type choices
RoleTypes ==
    {"SYSTEM", "SYSTEM_ADMIN", "DOMAIN_ADMIN", "WORKSPACE_OWNER",
     "WORKSPACE_MEMBER", "USER"}

\* what _get_latest_role_type may be handed: the choices and a foreign string
AggInputs == RoleTypes \cup {"UNRECOGNIZED"}

WorkspaceRoleTypes == {"WORKSPACE_OWNER", "WORKSPACE_MEMBER"}

\* the records the stores hold (users, roles and workspaces are read-only here)
Domains == {"domain-1"}
UserIds == {"user-1", "user-2"}
Workspaces == {"ws-1"}
RoleStore ==
    [x \in {"role-da", "role-da2", "role-wo", "role-wm", "role-sa"} |->
        CASE x = "role-da"  -> "DOMAIN_ADMIN"
          [] x = "role-da2" -> "DOMAIN_ADMIN"
          [] x = "role-wo"  -> "WORKSPACE_OWNER"
          [] x = "role-wm"  -> "WORKSPACE_MEMBER"
          [] x = "role-sa"  -> "SYSTEM_ADMIN"]
RoleIds == DOMAIN RoleStore

\* what a request may carry
ReqDomains == Domains \cup {"domain-x"}
ReqUserIds == UserIds \cup {"user-x"}
ReqRoleIds == RoleIds \cup {"role-x"}
ReqWorkspaces == Workspaces \cup {None}
ResourceGroups == {"DOMAIN", "WORKSPACE"}
RoleBindingIds ==
    1..(IF MaxRoleBindings > MaxStepRoleBindings
        THEN MaxRoleBindings ELSE MaxStepRoleBindings)

NoBinding ==
    [role_binding_id |-> 0, user_id |-> None, role_id |-> None,
     role_type |-> None, resource_group |-> None, workspace_id |-> None,
     domain_id |-> None]

\* the concurrent create calls of SpecRace
Calls == {"call-1", "call-2"}

NoCreateParams ==
    [user_id |-> None, role_id |-> None, resource_group |-> None,
     workspace_id |-> None, domain_id |-> None]

\* a call that has not been made
IdleCall ==
    [pc |-> "idle", params |-> NoCreateParams, user_vo_role_type |-> None,
     error |-> None]

\* User.mfa of a user that has no MFA sub-record
NoMfa == [present |-> FALSE, state |-> None, mfa_type |-> None,
          options |-> None]

NoMfaOperation ==
    [op |-> None, error |-> None, user_id |-> None, mfa_type |-> None,
     options |-> None, code_accepted |-> FALSE, code_sent |-> FALSE,
     notice_sent |-> FALSE, before |-> NoMfa,
     prev_op |-> None, prev_error |-> None, prev_user_id |-> None,
     prev_before |-> NoMfa]

----------------------------------------------------------------------------
(* Store lookups *)

UserExists(user_id, domain_id) ==
    user_id \in UserIds /\ domain_id \in Domains

WorkspaceExists(workspace_id, domain_id) ==
    workspace_id \in Workspaces /\ domain_id \in Domains

RoleExists(role_id, domain_id) ==
    role_id \in RoleIds /\ domain_id \in Domains

RoleTypeOf(role_id, domain_id) ==
    IF RoleExists(role_id, domain_id) THEN RoleStore[role_id] ELSE None

\* role_binding_manager.get_role_binding: the binding in the caller's scope
RoleBindingExists(role_binding_id, domain_id, workspace_id) ==
    /\ role_binding_id \in DOMAIN role_bindings
    /\ role_bindings[role_binding_id].domain_id = domain_id
    /\ workspace_id # None =>
          role_bindings[role_binding_id].workspace_id = workspace_id

RECURSIVE IdsInOrder(_)
IdsInOrder(ids) ==
    IF ids = {} THEN <<>>
    ELSE LET m == CHOOSE i \in ids : \A j \in ids : i <= j
         IN  <<m>> \o IdsInOrder(ids \ {m})

\* role_binding_manager.filter_role_bindings(domain_id=, user_id=)
filter_role_bindings(rbs, domain_id, user_id) ==
    LET ids == {i \in DOMAIN rbs :
                   rbs[i].domain_id = domain_id /\ rbs[i].user_id = user_id}
        ord == IdsInOrder(ids)
    IN  [k \in 1..Len(ord) |-> rbs[ord[k]]]

----------------------------------------------------------------------------
(* RoleBindingService._get_latest_role_type *)

priority ==
    [x \in {"DOMAIN_ADMIN", "WORKSPACE_OWNER", "WORKSPACE_MEMBER", "USER"} |->
        CASE x = "DOMAIN_ADMIN"     -> 1
          [] x = "WORKSPACE_OWNER"  -> 2
          [] x = "WORKSPACE_MEMBER" -> 3
          [] x = "USER"             -> 4]

\* priority.get(key, default)
priority_get(key, default) ==
    IF key \in DOMAIN priority THEN priority[key] ELSE default

\* variant: the comparison of line 319 as <=
get_latest_role_type_le(before, after) ==
    LET before_priority == priority_get(before, 4)
        after_priority == priority_get(after, 4)
    IN  IF before_priority <= after_priority
        THEN before
        ELSE IF after \in {"WORKSPACE_OWNER", "WORKSPACE_MEMBER"}
             THEN "USER"
             ELSE after

\* variant: without the collapse to "USER" of lines 322-323
get_latest_role_type_no_collapse(before, after) ==
    LET before_priority == priority_get(before, 4)
        after_priority == priority_get(after, 4)
    IN  IF before_priority < after_priority
        THEN before
        ELSE after

\* variant: without the comparison of lines 319-320
get_latest_role_type_no_compare(before, after) ==
    IF after \in {"WORKSPACE_OWNER", "WORKSPACE_MEMBER"}
    THEN "USER"
    ELSE after

\* lines 307-325
_get_latest_role_type(before, after) ==
    LET before_priority == priority_get(before, 4)
        after_priority == priority_get(after, 4)
    IN  IF before_priority < after_priority
        THEN before
        ELSE IF after \in {"WORKSPACE_OWNER", "WORKSPACE_MEMBER"}
             THEN "USER"
             ELSE after

----------------------------------------------------------------------------
(* Store writes: the calls a handler makes on the user store            *)
(* (user_mgr.update_user_by_vo) and on the binding store                 *)
(* (role_binding_manager.create_role_binding / update_role_binding_by_vo *)
(* / delete_role_binding_by_vo), in the order the handler makes them.    *)

UserWrite(user_id, role_type) ==
    [store |-> "user", method |-> "update", user_id |-> user_id,
     role_type |-> role_type, data |-> NoBinding]

BindingWrite(method, vo) ==
    [store |-> "role_binding", method |-> method, user_id |-> None,
     role_type |-> None, data |-> vo]

\* the effect of one store write on the stored records
ApplyWrite(w, s) ==
    IF w.store = "user"
    THEN [s EXCEPT !.users = [s.users EXCEPT ![w.user_id] = w.role_type]]
    ELSE CASE w.method = "create" ->
                [s EXCEPT
                    !.role_bindings =
                        s.role_bindings @@
                        (s.next_id :>
                            [w.data EXCEPT !.role_binding_id = s.next_id]),
                    !.next_id = s.next_id + 1]
           [] w.method = "update" ->
                [s EXCEPT
                    !.role_bindings =
                        [s.role_bindings EXCEPT
                            ![w.data.role_binding_id] = w.data]]
           [] w.method = "delete" ->
                [s EXCEPT
                    !.role_bindings =
                        [i \in (DOMAIN s.role_bindings)
                                  \ {w.data.role_binding_id} |->
                            s.role_bindings[i]]]

RECURSIVE ApplyWrites(_, _)
ApplyWrites(ws, s) ==
    IF ws = <<>> THEN s ELSE ApplyWrites(Tail(ws), ApplyWrite(Head(ws), s))

Stored == [users |-> users, role_bindings |-> role_bindings,
           next_id |-> next_id]

----------------------------------------------------------------------------
(* RoleBindingService.create_role_binding *)

\* variant: without the else branch of lines 70-71
create_workspace_id_as_given(params) == params.workspace_id

\* lines 66-71: the workspace_id the binding is stored with
create_workspace_id(params) ==
    IF params.resource_group = "WORKSPACE"
    THEN params.workspace_id
    ELSE "*"

\* variant: without the role type checks of lines 77-90
create_check_no_scope(params) ==
    IF ~UserExists(params.user_id, params.domain_id)
    THEN ERROR_NOT_FOUND
    ELSE IF params.resource_group = "WORKSPACE"
            /\ ~WorkspaceExists(params.workspace_id, params.domain_id)
    THEN ERROR_NOT_FOUND
    ELSE IF ~RoleExists(params.role_id, params.domain_id)
    THEN ERROR_NOT_FOUND
    ELSE OK

\* variant: a create that refuses a binding equal to one already stored
create_check_unique(params) ==
    IF ~UserExists(params.user_id, params.domain_id)
    THEN ERROR_NOT_FOUND
    ELSE IF params.resource_group = "WORKSPACE"
            /\ ~WorkspaceExists(params.workspace_id, params.domain_id)
    THEN ERROR_NOT_FOUND
    ELSE IF ~RoleExists(params.role_id, params.domain_id)
    THEN ERROR_NOT_FOUND
    ELSE IF params.resource_group = "DOMAIN"
            /\ RoleStore[params.role_id] # "DOMAIN_ADMIN"
    THEN ERROR_NOT_ALLOWED_ROLE_TYPE
    ELSE IF params.resource_group # "DOMAIN"
            /\ RoleStore[params.role_id]
                  \notin {"WORKSPACE_OWNER", "WORKSPACE_MEMBER"}
    THEN ERROR_NOT_ALLOWED_ROLE_TYPE
    ELSE IF \E i \in DOMAIN role_bindings :
               /\ role_bindings[i].user_id = params.user_id
               /\ role_bindings[i].role_id = params.role_id
               /\ role_bindings[i].resource_group = params.resource_group
               /\ role_bindings[i].workspace_id = create_workspace_id(params)
    THEN "ERROR_SAVE_UNIQUE_VALUES"
    ELSE OK

\* lines 63-90: the checks, in the order the handler makes them
create_check(params) ==
    IF ~UserExists(params.user_id, params.domain_id)
    THEN ERROR_NOT_FOUND
    ELSE IF params.resource_group = "WORKSPACE"
            /\ ~WorkspaceExists(params.workspace_id, params.domain_id)
    THEN ERROR_NOT_FOUND
    ELSE IF ~RoleExists(params.role_id, params.domain_id)
    THEN ERROR_NOT_FOUND
    ELSE IF params.resource_group = "DOMAIN"
    THEN IF RoleStore[params.role_id] # "DOMAIN_ADMIN"
         THEN ERROR_NOT_ALLOWED_ROLE_TYPE
         ELSE OK
    ELSE IF RoleStore[params.role_id]
                \notin {"WORKSPACE_OWNER", "WORKSPACE_MEMBER"}
         THEN ERROR_NOT_ALLOWED_ROLE_TYPE
         ELSE OK

\* lines 94-103: the writes of a create that passed the checks and whose
\* user_vo, read at line 64, has the role_type user_vo_role_type
create_writes_from(params, user_vo_role_type) ==
    LET role_type == RoleStore[params.role_id]
        latest_role_type ==
            _get_latest_role_type(user_vo_role_type, role_type)
    IN  << UserWrite(params.user_id, latest_role_type),
           BindingWrite("create",
               [role_binding_id |-> 0,
                user_id |-> params.user_id,
                role_id |-> params.role_id,
                role_type |-> role_type,
                resource_group |-> params.resource_group,
                workspace_id |-> create_workspace_id(params),
                domain_id |-> params.domain_id]) >>

\* lines 64-103 with no other call between the read and the writes
create_writes(params) ==
    create_writes_from(params, users[params.user_id])

\* the request, as the record of the latest operation
create_request(params) ==
    [op |-> "create", error |-> None,
     user_id |-> IF UserExists(params.user_id, params.domain_id)
                 THEN params.user_id ELSE None,
     role_binding_id |-> 0,
     resource_group |-> params.resource_group,
     role_type |-> RoleTypeOf(params.role_id, params.domain_id),
     workspace_found |->
         WorkspaceExists(params.workspace_id, params.domain_id),
     user_written |-> FALSE, binding_written |-> FALSE]

CreateParams ==
    [user_id : ReqUserIds, role_id : ReqRoleIds,
     resource_group : ResourceGroups, workspace_id : ReqWorkspaces,
     domain_id : ReqDomains]

----------------------------------------------------------------------------
(* RoleBindingService.update_role *)

\* variant: without the elif of lines 147-152
update_role_check_no_elif(params) ==
    IF ~RoleBindingExists(params.role_binding_id, params.domain_id,
                          params.workspace_id)
    THEN ERROR_NOT_FOUND
    ELSE IF ~RoleExists(params.role_id, params.domain_id)
    THEN ERROR_NOT_FOUND
    ELSE LET rb_vo == role_bindings[params.role_binding_id]
             new_role_type == RoleStore[params.role_id]
         IN  IF rb_vo.role_type \in {"WORKSPACE_OWNER", "WORKSPACE_MEMBER"}
                /\ new_role_type
                        \notin {"WORKSPACE_OWNER", "WORKSPACE_MEMBER"}
             THEN ERROR_NOT_ALLOWED_ROLE_TYPE
             ELSE IF ~UserExists(rb_vo.user_id, rb_vo.domain_id)
                  THEN ERROR_NOT_FOUND ELSE OK

\* lines 129-154: the checks, in the order the handler makes them
update_role_check(params) ==
    IF ~RoleBindingExists(params.role_binding_id, params.domain_id,
                          params.workspace_id)
    THEN ERROR_NOT_FOUND
    ELSE IF ~RoleExists(params.role_id, params.domain_id)
    THEN ERROR_NOT_FOUND
    ELSE LET rb_vo == role_bindings[params.role_binding_id]
             new_role_type == RoleStore[params.role_id]
         IN  IF rb_vo.role_type \in {"WORKSPACE_OWNER", "WORKSPACE_MEMBER"}
             THEN IF new_role_type
                        \notin {"WORKSPACE_OWNER", "WORKSPACE_MEMBER"}
                  THEN ERROR_NOT_ALLOWED_ROLE_TYPE
                  ELSE IF ~UserExists(rb_vo.user_id, rb_vo.domain_id)
                       THEN ERROR_NOT_FOUND ELSE OK
             ELSE IF rb_vo.role_type # new_role_type
                  THEN ERROR_NOT_ALLOWED_ROLE_TYPE
                  ELSE IF ~UserExists(rb_vo.user_id, rb_vo.domain_id)
                       THEN ERROR_NOT_FOUND ELSE OK

\* variant: line 162 as {"role_id": params.role_id}
update_role_writes_role_id_only(params) ==
    LET rb_vo == role_bindings[params.role_binding_id]
        new_role_type == RoleStore[params.role_id]
        latest_role_type ==
            _get_latest_role_type(users[rb_vo.user_id], new_role_type)
    IN  << UserWrite(rb_vo.user_id, latest_role_type),
           BindingWrite("update",
               [rb_vo EXCEPT !.role_id = params.role_id]) >>

\* lines 154-163: the writes of an update_role that passed the checks
update_role_writes(params) ==
    LET rb_vo == role_bindings[params.role_binding_id]
        new_role_type == RoleStore[params.role_id]
        latest_role_type ==
            _get_latest_role_type(users[rb_vo.user_id], new_role_type)
    IN  << UserWrite(rb_vo.user_id, latest_role_type),
           BindingWrite("update",
               [rb_vo EXCEPT !.role_id = params.role_id,
                             !.role_type = new_role_type]) >>

update_role_request(params) ==
    LET found == RoleBindingExists(params.role_binding_id, params.domain_id,
                                   params.workspace_id)
        rb_vo == IF found THEN role_bindings[params.role_binding_id]
                 ELSE NoBinding
    IN  [op |-> "update_role", error |-> None,
         user_id |-> rb_vo.user_id,
         role_binding_id |-> rb_vo.role_binding_id,
         resource_group |-> rb_vo.resource_group,
         role_type |-> RoleTypeOf(params.role_id, params.domain_id),
         workspace_found |-> FALSE,
         user_written |-> FALSE, binding_written |-> FALSE]

UpdateRoleParams ==
    [role_binding_id : RoleBindingIds, role_id : ReqRoleIds,
     workspace_id : ReqWorkspaces, domain_id : ReqDomains]

----------------------------------------------------------------------------
(* RoleBindingService.delete *)

\* lines 188-190, 209: the lookups that can raise
delete_check(params) ==
    IF ~RoleBindingExists(params.role_binding_id, params.domain_id,
                          params.workspace_id)
    THEN ERROR_NOT_FOUND
    ELSE LET rb_vo == role_bindings[params.role_binding_id]
         IN  IF ~UserExists(rb_vo.user_id, rb_vo.domain_id)
             THEN ERROR_NOT_FOUND ELSE OK

\* variant: without the continue of lines 202-203
delete_loop_body_no_skip(latest_role_type, remain_rb_vo, role_binding_id) ==
    _get_latest_role_type(latest_role_type, remain_rb_vo.role_type)

\* variant: line 205-207 with the arguments of the aggregator exchanged
delete_loop_body_swapped(latest_role_type, remain_rb_vo, role_binding_id) ==
    IF remain_rb_vo.role_binding_id = role_binding_id
    THEN latest_role_type
    ELSE _get_latest_role_type(remain_rb_vo.role_type, latest_role_type)

\* lines 202-207: one iteration of the loop over remain_rb_vos
delete_loop_body(latest_role_type, remain_rb_vo, role_binding_id) ==
    IF remain_rb_vo.role_binding_id = role_binding_id
    THEN latest_role_type
    ELSE _get_latest_role_type(latest_role_type, remain_rb_vo.role_type)

RECURSIVE delete_loop(_, _, _)
\* lines 201-207: the loop, from the accumulator latest_role_type
delete_loop(remain_rb_vos, role_binding_id, latest_role_type) ==
    IF remain_rb_vos = <<>>
    THEN latest_role_type
    ELSE delete_loop(Tail(remain_rb_vos), role_binding_id,
                     delete_loop_body(latest_role_type, Head(remain_rb_vos),
                                      role_binding_id))

\* variant: the fold seeded with the stored role_type instead of line 200
delete_writes_seed_current(params) ==
    LET rb_vo == role_bindings[params.role_binding_id]
        remain_rb_vos ==
            filter_role_bindings(role_bindings, params.domain_id,
                                 rb_vo.user_id)
        latest_role_type ==
            delete_loop(remain_rb_vos, params.role_binding_id,
                        users[rb_vo.user_id])
    IN  << UserWrite(rb_vo.user_id, latest_role_type),
           BindingWrite("delete", rb_vo) >>

\* variant: line 212 before lines 209-210
delete_writes_binding_first(params) ==
    LET rb_vo == role_bindings[params.role_binding_id]
        remain_rb_vos ==
            filter_role_bindings(role_bindings, params.domain_id,
                                 rb_vo.user_id)
        latest_role_type ==
            delete_loop(remain_rb_vos, params.role_binding_id, "USER")
    IN  << BindingWrite("delete", rb_vo),
           UserWrite(rb_vo.user_id, latest_role_type) >>

\* lines 195-212: the writes of a delete whose lookups succeeded
delete_writes(params) ==
    LET rb_vo == role_bindings[params.role_binding_id]
        remain_rb_vos ==
            filter_role_bindings(role_bindings, params.domain_id,
                                 rb_vo.user_id)
        latest_role_type ==
            delete_loop(remain_rb_vos, params.role_binding_id, "USER")
    IN  << UserWrite(rb_vo.user_id, latest_role_type),
           BindingWrite("delete", rb_vo) >>

delete_request(params) ==
    LET found == RoleBindingExists(params.role_binding_id, params.domain_id,
                                   params.workspace_id)
        rb_vo == IF found THEN role_bindings[params.role_binding_id]
                 ELSE NoBinding
    IN  [op |-> "delete", error |-> None,
         user_id |-> rb_vo.user_id,
         role_binding_id |-> rb_vo.role_binding_id,
         resource_group |-> rb_vo.resource_group,
         role_type |-> rb_vo.role_type,
         workspace_found |-> FALSE,
         user_written |-> FALSE, binding_written |-> FALSE]

DeleteParams ==
    [role_binding_id : RoleBindingIds, workspace_id : ReqWorkspaces,
     domain_id : ReqDomains]

----------------------------------------------------------------------------
(* Spec: each handler is one atomic step *)

\* a handler run to its end: it raises error, or makes all its writes
Handle(request, error, writes) ==
    LET s == ApplyWrites(writes, Stored)
    IN  /\ users' = s.users
        /\ role_bindings' = s.role_bindings
        /\ next_id' = s.next_id
        /\ last' = [request EXCEPT
                        !.error = error,
                        !.role_binding_id =
                            IF request.op = "create" /\ error = OK
                            THEN next_id ELSE @,
                        !.user_written = (error = OK),
                        !.binding_written = (error = OK)]
        /\ UNCHANGED <<pc, pending>>

create(params) ==
    /\ pc = "idle"
    /\ LET error == create_check(params)
       IN  /\ error = OK => next_id <= MaxRoleBindings
           /\ Handle(create_request(params), error,
                     IF error = OK THEN create_writes(params) ELSE <<>>)
    /\ UNCHANGED <<aggVars, raceVars, mfaVars>>

update_role(params) ==
    /\ pc = "idle"
    /\ LET error == update_role_check(params)
       IN  Handle(update_role_request(params), error,
                  IF error = OK THEN update_role_writes(params) ELSE <<>>)
    /\ UNCHANGED <<aggVars, raceVars, mfaVars>>

delete(params) ==
    /\ pc = "idle"
    /\ LET error == delete_check(params)
       IN  Handle(delete_request(params), error,
                  IF error = OK THEN delete_writes(params) ELSE <<>>)
    /\ UNCHANGED <<aggVars, raceVars, mfaVars>>

NoOperation ==
    [op |-> None, error |-> None, user_id |-> None, role_binding_id |-> 0,
     resource_group |-> None, role_type |-> None, workspace_found |-> FALSE,
     user_written |-> FALSE, binding_written |-> FALSE]

\* users as the User model creates them (role_type default "USER"), no bindings
Init ==
    /\ users = [u \in UserIds |-> "USER"]
    /\ role_bindings = << >>
    /\ next_id = 1
    /\ last = NoOperation
    /\ pc = "idle"
    /\ pending = << >>
    /\ agg_seed = "USER"
    /\ agg_seq = << >>
    /\ agg_before = "USER"
    /\ agg_out = "USER"
    /\ calls = [c \in Calls |-> IdleCall]
    /\ last_user_writer = [u \in UserIds |-> None]
    /\ mfa = [u \in UserIds |-> NoMfa]
    /\ mfa_last = NoMfaOperation

Next ==
    \/ \E params \in CreateParams : create(params)
    \/ \E params \in UpdateRoleParams : update_role(params)
    \/ \E params \in DeleteParams : delete(params)

Spec == Init /\ [][Next]_vars

----------------------------------------------------------------------------
(* SpecSteps: one operation in flight; the handler's reads and checks are *)
(* one step, each store write is a step of its own, and a store write     *)
(* may raise, which ends the handler there.                               *)

\* the handler up to its first store write
Begin(request, error, writes) ==
    /\ IF error # OK
       THEN /\ last' = [request EXCEPT !.error = error]
            /\ UNCHANGED <<pc, pending>>
       ELSE /\ last' = request
            /\ pc' = "writing"
            /\ pending' = writes
    /\ UNCHANGED <<users, role_bindings, next_id>>

begin_create(params) ==
    /\ pc = "idle"
    /\ LET error == create_check(params)
       IN  /\ error = OK => next_id <= MaxStepRoleBindings
           /\ Begin(create_request(params), error,
                    IF error = OK THEN create_writes(params) ELSE <<>>)
    /\ UNCHANGED <<aggVars, raceVars, mfaVars>>

begin_update_role(params) ==
    /\ pc = "idle"
    /\ LET error == update_role_check(params)
       IN  Begin(update_role_request(params), error,
                 IF error = OK THEN update_role_writes(params) ELSE <<>>)
    /\ UNCHANGED <<aggVars, raceVars, mfaVars>>

begin_delete(params) ==
    /\ pc = "idle"
    /\ LET error == delete_check(params)
       IN  Begin(delete_request(params), error,
                 IF error = OK THEN delete_writes(params) ELSE <<>>)
    /\ UNCHANGED <<aggVars, raceVars, mfaVars>>

\* the next store write of the handler in flight returns
store_write ==
    /\ pc = "writing"
    /\ LET w == Head(pending)
           s == ApplyWrite(w, Stored)
           done == Tail(pending) = <<>>
       IN  /\ users' = s.users
           /\ role_bindings' = s.role_bindings
           /\ next_id' = s.next_id
           /\ pending' = Tail(pending)
           /\ pc' = IF done THEN "idle" ELSE "writing"
           /\ last' = [last EXCEPT
                          !.error = IF done THEN OK ELSE @,
                          !.role_binding_id =
                              IF w.store = "role_binding"
                                 /\ w.method = "create"
                              THEN next_id ELSE @,
                          !.user_written = @ \/ w.store = "user",
                          !.binding_written = @ \/ w.store = "role_binding"]
    /\ UNCHANGED <<aggVars, raceVars, mfaVars>>

\* the next store write of the handler in flight raises: the exception
\* leaves the handler, which has no except clause and makes no further call
store_write_raises ==
    /\ pc = "writing"
    /\ pc' = "idle"
    /\ pending' = << >>
    /\ last' = [last EXCEPT !.error = ERROR_STORE_WRITE]
    /\ UNCHANGED <<users, role_bindings, next_id>>
    /\ UNCHANGED <<aggVars, raceVars, mfaVars>>

NextSteps ==
    \/ \E params \in CreateParams : begin_create(params)
    \/ \E params \in UpdateRoleParams : begin_update_role(params)
    \/ \E params \in DeleteParams : begin_delete(params)
    \/ store_write
    \/ store_write_raises

SpecSteps == Init /\ [][NextSteps]_vars

----------------------------------------------------------------------------
(* SpecAgg: _get_latest_role_type folded over role types *)

InitAgg ==
    /\ users = [u \in UserIds |-> "USER"]
    /\ role_bindings = << >>
    /\ next_id = 1
    /\ last = NoOperation
    /\ pc = "idle"
    /\ pending = << >>
    /\ agg_seed \in AggInputs
    /\ agg_seq = << >>
    /\ agg_before = agg_seed
    /\ agg_out = agg_seed
    /\ calls = [c \in Calls |-> IdleCall]
    /\ last_user_writer = [u \in UserIds |-> None]
    /\ mfa = [u \in UserIds |-> NoMfa]
    /\ mfa_last = NoMfaOperation

combine(after) ==
    /\ Len(agg_seq) < MaxFoldLen
    /\ agg_seq' = Append(agg_seq, after)
    /\ agg_before' = agg_out
    /\ agg_out' = _get_latest_role_type(agg_out, after)
    /\ UNCHANGED agg_seed
    /\ UNCHANGED <<rbVars, raceVars, mfaVars>>

NextAgg == \E after \in AggInputs : combine(after)

SpecAgg == InitAgg /\ [][NextAgg]_vars

----------------------------------------------------------------------------
(* SpecRace: the create_role_binding calls of Calls run concurrently. A   *)
(* call reads the user and makes its checks (lines 63-90), writes the     *)
(* user's role_type (lines 96-100) and creates the binding (line 103) in  *)
(* three steps, between which the other call may take its own.            *)

\* variant: the role_type read again from the store at line 98
race_user_vo_role_type_fresh(c) == users[calls[c].params.user_id]

\* line 98: user_vo.role_type, as line 64 read it
race_user_vo_role_type(c) == calls[c].user_vo_role_type

\* lines 57-94
race_read(c, params) ==
    /\ calls[c].pc = "idle"
    /\ LET error == create_check(params)
       IN  calls' = [calls EXCEPT ![c] =
                IF error # OK
                THEN [pc |-> "done", params |-> params,
                      user_vo_role_type |-> None, error |-> error]
                ELSE [pc |-> "read", params |-> params,
                      user_vo_role_type |-> users[params.user_id],
                      error |-> None]]
    /\ UNCHANGED <<rbVars, aggVars, mfaVars, last_user_writer>>

\* lines 96-100
race_user_write(c) ==
    /\ calls[c].pc = "read"
    /\ LET writes == create_writes_from(calls[c].params,
                                        race_user_vo_role_type(c))
           s == ApplyWrite(writes[1], Stored)
       IN  /\ users' = s.users
           /\ role_bindings' = s.role_bindings
           /\ next_id' = s.next_id
    /\ calls' = [calls EXCEPT ![c].pc = "user_written"]
    /\ last_user_writer' =
          [last_user_writer EXCEPT ![calls[c].params.user_id] = c]
    /\ UNCHANGED <<last, pc, pending, aggVars, mfaVars>>

\* line 103
race_binding_write(c) ==
    /\ calls[c].pc = "user_written"
    /\ LET writes == create_writes_from(calls[c].params,
                                        race_user_vo_role_type(c))
           s == ApplyWrite(writes[2], Stored)
       IN  /\ users' = s.users
           /\ role_bindings' = s.role_bindings
           /\ next_id' = s.next_id
    /\ calls' = [calls EXCEPT ![c].pc = "done", ![c].error = OK]
    /\ UNCHANGED <<last, pc, pending, aggVars, mfaVars, last_user_writer>>

NextRace ==
    \/ \E c \in Calls, params \in CreateParams : race_read(c, params)
    \/ \E c \in Calls : race_user_write(c)
    \/ \E c \in Calls : race_binding_write(c)

SpecRace == Init /\ [][NextRace]_vars

----------------------------------------------------------------------------
(* UserProfileService.enable_mfa / disable_mfa / confirm_mfa. user_id and *)
(* domain_id are injected from the caller's authentication, so the user   *)
(* is one of the stored users.                                            *)

ERROR_REQUIRED_PARAMETER == "ERROR_REQUIRED_PARAMETER"
ERROR_MFA_ALREADY_ENABLED == "ERROR_MFA_ALREADY_ENABLED"
ERROR_MFA_ALREADY_DISABLED == "ERROR_MFA_ALREADY_DISABLED"
ERROR_MFA_NOT_ENABLED == "ERROR_MFA_NOT_ENABLED"
ERROR_NOT_SUPPORTED_MFA_TYPE == "ERROR_NOT_SUPPORTED_MFA_TYPE"
ERROR_INVALID_VERIFY_CODE == "ERROR_INVALID_VERIFY_CODE"
\* the exception of user_vo.mfa.mfa_type when user_vo.mfa is None
AttributeError == "AttributeError"

EmptyOptions == "{}"
ReqMfaTypes == {"EMAIL", "OTP"}
ReqMfaOptions == {EmptyOptions, "options-a", "options-b"}

\* user_mfa.get("state", "DISABLED") of
\* user_mfa = user_vo.mfa.to_dict() if user_vo.mfa else {}
user_mfa_state(user_mfa) ==
    IF user_mfa.present THEN user_mfa.state ELSE "DISABLED"

\* user_mfa.get("mfa_type") of the same dict
user_mfa_mfa_type(user_mfa) ==
    IF user_mfa.present THEN user_mfa.mfa_type ELSE None

\* the MFA strategies that are registered
RegisteredMfaTypes == {"EMAIL"}

\* MFAManager.get_manager_by_mfa_type(mfa_type): the error it raises
get_manager_by_mfa_type(mfa_type) ==
    IF mfa_type \in RegisteredMfaTypes
    THEN OK
    ELSE ERROR_NOT_SUPPORTED_MFA_TYPE

\* variant: without the check of lines 216-217
enable_mfa_check_no_options(user_id, mfa_type, options) ==
    IF user_mfa_state(mfa[user_id]) = "ENABLED"
    THEN ERROR_MFA_ALREADY_ENABLED
    ELSE IF mfa_type # "EMAIL"
    THEN ERROR_NOT_SUPPORTED_MFA_TYPE
    ELSE OK

\* variant: without the check of lines 219-220
enable_mfa_check_no_state(user_id, mfa_type, options) ==
    IF options \in {EmptyOptions, None}
    THEN ERROR_REQUIRED_PARAMETER
    ELSE IF mfa_type # "EMAIL"
    THEN ERROR_NOT_SUPPORTED_MFA_TYPE
    ELSE OK

\* variant: the mfa_type looked up before the state is checked
enable_mfa_check_type_first(user_id, mfa_type, options) ==
    IF options \in {EmptyOptions, None}
    THEN ERROR_REQUIRED_PARAMETER
    ELSE IF mfa_type # "EMAIL"
    THEN ERROR_NOT_SUPPORTED_MFA_TYPE
    ELSE IF user_mfa_state(mfa[user_id]) = "ENABLED"
    THEN ERROR_MFA_ALREADY_ENABLED
    ELSE OK

\* lines 216-231: the checks of enable_mfa, in the order it makes them
enable_mfa_check(user_id, mfa_type, options) ==
    IF options \in {EmptyOptions, None}
    THEN ERROR_REQUIRED_PARAMETER
    ELSE IF user_mfa_state(mfa[user_id]) = "ENABLED"
    THEN ERROR_MFA_ALREADY_ENABLED
    ELSE IF get_manager_by_mfa_type(mfa_type) # OK
    THEN get_manager_by_mfa_type(mfa_type)
    ELSE IF mfa_type # "EMAIL"
    THEN ERROR_NOT_SUPPORTED_MFA_TYPE
    ELSE OK

\* variant: line 227 as user_mfa["state"] = "ENABLED"
enable_mfa_user_mfa_enabled(user_id, mfa_type, options) ==
    [present |-> TRUE, state |-> "ENABLED",
     mfa_type |-> mfa_type, options |-> options]

\* lines 225-227: the user_mfa that line 229 stores
enable_mfa_user_mfa(user_id, mfa_type, options) ==
    [present |-> TRUE,
     state |-> user_mfa_state(mfa[user_id]),
     mfa_type |-> mfa_type,
     options |-> options]

\* lines 253-258
disable_mfa_check(user_id) ==
    IF \/ user_mfa_state(mfa[user_id]) = "DISABLED"
       \/ user_mfa_mfa_type(mfa[user_id]) = None
    THEN ERROR_MFA_ALREADY_DISABLED
    ELSE OK

\* variant: disable_mfa storing the state DISABLED itself
disable_mfa_stored_disabled(user_id) ==
    [mfa[user_id] EXCEPT !.state = "DISABLED"]

\* lines 260-263: User.mfa after a disable_mfa, which makes no store write
disable_mfa_stored(user_id) == mfa[user_id]

\* variant: without the else of lines 304-305
confirm_mfa_check_any_code(user_id, code_accepted) ==
    IF ~mfa[user_id].present
    THEN AttributeError
    ELSE IF mfa[user_id].mfa_type = None
    THEN ERROR_MFA_NOT_ENABLED
    ELSE OK

\* lines 284-305: the checks of confirm_mfa; code_accepted is what
\* mfa_manager.confirm_mfa(credentials, verify_code) returns
confirm_mfa_check(user_id, code_accepted) ==
    IF ~mfa[user_id].present
    THEN AttributeError
    ELSE IF mfa[user_id].mfa_type = None
    THEN ERROR_MFA_NOT_ENABLED
    ELSE IF mfa[user_id].mfa_type = "EMAIL" /\ ~code_accepted
    THEN ERROR_INVALID_VERIFY_CODE
    ELSE OK

\* variant: line 300 as user_mfa["state"] = "DISABLED"
confirm_mfa_user_mfa_keep(user_id) ==
    IF mfa[user_id].mfa_type # "EMAIL"
    THEN mfa[user_id]
    ELSE IF user_mfa_state(mfa[user_id]) = "ENABLED"
    THEN [mfa[user_id] EXCEPT !.state = "DISABLED"]
    ELSE [mfa[user_id] EXCEPT !.state = "ENABLED"]

\* an MFA document made of {"state": "DISABLED"} alone: mfa_type is unset and
\* options is the empty dict a DictField defaults to (database.py lines 5-10)
StateDisabledOnly ==
    [present |-> TRUE, state |-> "DISABLED", mfa_type |-> None,
     options |-> EmptyOptions]

\* variant: line 302 as user_mfa = {"state": "ENABLED"}
confirm_mfa_user_mfa_reset(user_id) ==
    IF mfa[user_id].mfa_type # "EMAIL"
    THEN mfa[user_id]
    ELSE IF user_mfa_state(mfa[user_id]) = "ENABLED"
    THEN StateDisabledOnly
    ELSE [StateDisabledOnly EXCEPT !.state = "ENABLED"]

\* lines 292-303: the user_mfa that an accepted confirm_mfa stores
confirm_mfa_user_mfa(user_id) ==
    IF mfa[user_id].mfa_type # "EMAIL"
    THEN mfa[user_id]
    ELSE IF user_mfa_state(mfa[user_id]) = "ENABLED"
    THEN StateDisabledOnly
    ELSE [mfa[user_id] EXCEPT !.state = "ENABLED"]

\* an MFA operation run to its end
MfaHandle(request, error, user_mfa) ==
    /\ mfa' = IF error = OK
              THEN [mfa EXCEPT ![request.user_id] = user_mfa]
              ELSE mfa
    /\ mfa_last' =
          [request EXCEPT
              !.error = error,
              !.code_sent = (request.op = "enable_mfa" /\ error = OK),
              !.notice_sent = (request.op = "disable_mfa" /\ error = OK),
              !.before = mfa[request.user_id],
              !.prev_op = mfa_last.op,
              !.prev_error = mfa_last.error,
              !.prev_user_id = mfa_last.user_id,
              !.prev_before = mfa_last.before]
    /\ UNCHANGED <<rbVars, aggVars, raceVars>>

enable_mfa(user_id, mfa_type, options) ==
    MfaHandle([NoMfaOperation EXCEPT !.op = "enable_mfa",
                                     !.user_id = user_id,
                                     !.mfa_type = mfa_type,
                                     !.options = options],
              enable_mfa_check(user_id, mfa_type, options),
              enable_mfa_user_mfa(user_id, mfa_type, options))

disable_mfa(user_id) ==
    MfaHandle([NoMfaOperation EXCEPT !.op = "disable_mfa",
                                     !.user_id = user_id],
              disable_mfa_check(user_id),
              disable_mfa_stored(user_id))

confirm_mfa(user_id, code_accepted) ==
    MfaHandle([NoMfaOperation EXCEPT !.op = "confirm_mfa",
                                     !.user_id = user_id,
                                     !.code_accepted = code_accepted],
              confirm_mfa_check(user_id, code_accepted),
              confirm_mfa_user_mfa(user_id))

NextMfa ==
    \/ \E user_id \in UserIds, mfa_type \in ReqMfaTypes,
          options \in ReqMfaOptions : enable_mfa(user_id, mfa_type, options)
    \/ \E user_id \in UserIds : disable_mfa(user_id)
    \/ \E user_id \in UserIds, code_accepted \in BOOLEAN :
          confirm_mfa(user_id, code_accepted)

SpecMfa == Init /\ [][NextMfa]_vars

----------------------------------------------------------------------------
(* Accounts whose role_type was set outside the binding mechanism: the  *)
(* same operations as Spec, from users stored with SYSTEM_ADMIN / SYSTEM *)
(* (database.py lines 24-28 admit both as User.role_type).               *)

PrivilegedUsers ==
    [u \in UserIds |-> IF u = "user-1" THEN "SYSTEM_ADMIN" ELSE "SYSTEM"]

InitPrivileged ==
    /\ users = PrivilegedUsers
    /\ role_bindings = << >>
    /\ next_id = 1
    /\ last = NoOperation
    /\ pc = "idle"
    /\ pending = << >>
    /\ agg_seed = "USER"
    /\ agg_seq = << >>
    /\ agg_before = "USER"
    /\ agg_out = "USER"
    /\ calls = [c \in Calls |-> IdleCall]
    /\ last_user_writer = [u \in UserIds |-> None]
    /\ mfa = [u \in UserIds |-> NoMfa]
    /\ mfa_last = NoMfaOperation

SpecPrivileged == InitPrivileged /\ [][Next]_vars

----------------------------------------------------------------------------
(* Properties *)

RECURSIVE FoldLeft(_, _)
FoldLeft(role_types, acc) ==
    IF role_types = <<>> THEN acc
    ELSE FoldLeft(Tail(role_types),
                  _get_latest_role_type(acc, Head(role_types)))

\* the ids of the bindings user u holds
HeldBy(u) == {i \in DOMAIN role_bindings : role_bindings[i].user_id = u}

\* the role_type of the bindings user u holds, in the order of the store
HeldRoleTypes(u) ==
    LET ord == IdsInOrder(HeldBy(u))
    IN  [k \in 1..Len(ord) |-> role_bindings[ord[k]].role_type]

\* C1: with atomic operations, from users at USER holding no bindings, after
\* every completed operation each user's stored role_type is the left fold
\* of _get_latest_role_type, seeded with USER, over the role_type of the
\* bindings the user holds (USER when the user holds none).
C1_RoleTypeIsFoldOfBindings ==
    \A u \in UserIds : users[u] = FoldLeft(HeldRoleTypes(u), "USER")

\* a delete has completed and left its user, who still holds a binding, at
\* DOMAIN_ADMIN
C1_Witness ==
    /\ last.op = "delete" /\ last.error = OK
    /\ HeldBy(last.user_id) # {}
    /\ users[last.user_id] = "DOMAIN_ADMIN"

\* the priority the aggregator is specified with
SpecifiedPriority(role_type) ==
    CASE role_type = "DOMAIN_ADMIN"     -> 1
      [] role_type = "WORKSPACE_OWNER"  -> 2
      [] role_type = "WORKSPACE_MEMBER" -> 3
      [] OTHER                          -> 4

\* C2: for every (before, after), _get_latest_role_type returns before when
\* priority(before) < priority(after), otherwise USER when after is
\* WORKSPACE_OWNER or WORKSPACE_MEMBER, otherwise after; in particular
\* (USER, DOMAIN_ADMIN) and (DOMAIN_ADMIN, USER) both give DOMAIN_ADMIN.
C2_CombineAsSpecified ==
    agg_seq # <<>> =>
        LET before == agg_before
            after == agg_seq[Len(agg_seq)]
        IN  /\ agg_out =
                  IF SpecifiedPriority(before) < SpecifiedPriority(after)
                  THEN before
                  ELSE IF after \in WorkspaceRoleTypes THEN "USER" ELSE after
            /\ before = "USER" /\ after = "DOMAIN_ADMIN"
                  => agg_out = "DOMAIN_ADMIN"
            /\ before = "DOMAIN_ADMIN" /\ after = "USER"
                  => agg_out = "DOMAIN_ADMIN"

\* DOMAIN_ADMIN has been combined with USER
C2_Witness ==
    /\ agg_seq = <<"USER">>
    /\ agg_before = "DOMAIN_ADMIN"
    /\ agg_out = "DOMAIN_ADMIN"

\* the operation recorded in l is a create whose role exists and has a type
\* that the resource_group does not admit
CreateWithMismatchedRole(l) ==
    /\ l.op = "create"
    /\ l.role_type # None
    /\ \/ l.resource_group = "DOMAIN" /\ l.role_type # "DOMAIN_ADMIN"
       \/ l.resource_group = "WORKSPACE"
            /\ l.role_type \notin WorkspaceRoleTypes

\* C3 as stated: a create with a role type the resource_group does not admit
\* always fails with NotAllowedRoleType, changing no role_type and adding no
\* binding.
C3_AlwaysNotAllowedRoleType ==
    [][CreateWithMismatchedRole(last') =>
          /\ last'.error = ERROR_NOT_ALLOWED_ROLE_TYPE
          /\ users' = users
          /\ role_bindings' = role_bindings]_vars

\* C3: a create with a role type the resource_group does not admit always
\* fails, with NotAllowedRoleType when the user exists and (for WORKSPACE)
\* the workspace exists and with NotFound otherwise; it changes no role_type
\* and adds no binding.
C3_MismatchedRoleFails ==
    [][CreateWithMismatchedRole(last') =>
          /\ last'.error =
                IF /\ last'.user_id # None
                   /\ last'.resource_group = "WORKSPACE"
                         => last'.workspace_found
                THEN ERROR_NOT_ALLOWED_ROLE_TYPE
                ELSE ERROR_NOT_FOUND
          /\ users' = users
          /\ role_bindings' = role_bindings]_vars

\* a DOMAIN create with a role that is not DOMAIN_ADMIN was refused while a
\* binding was stored
C3_Witness ==
    /\ CreateWithMismatchedRole(last)
    /\ last.resource_group = "DOMAIN"
    /\ last.error = ERROR_NOT_ALLOWED_ROLE_TYPE
    /\ DOMAIN role_bindings # {}

\* C4: update_role on a WORKSPACE_OWNER / WORKSPACE_MEMBER binding succeeds
\* only if the new role's type is one of those two, and on any other binding
\* only if the new role's type equals the binding's; every other combination
\* fails with NotAllowedRoleType and changes neither the binding nor any
\* user's role_type.
C4_UpdateRoleTypeCheck ==
    [][(/\ last'.op = "update_role"
        /\ last'.role_binding_id # 0
        /\ last'.role_type # None) =>
          LET current == role_bindings[last'.role_binding_id].role_type
              new == last'.role_type
              admitted == IF current \in WorkspaceRoleTypes
                          THEN new \in WorkspaceRoleTypes
                          ELSE new = current
          IN  /\ last'.error = OK => admitted
              /\ ~admitted =>
                    /\ last'.error = ERROR_NOT_ALLOWED_ROLE_TYPE
                    /\ users' = users
                    /\ role_bindings' = role_bindings]_vars

\* an update_role of a DOMAIN_ADMIN binding was refused
C4_Witness ==
    /\ last.op = "update_role"
    /\ last.error = ERROR_NOT_ALLOWED_ROLE_TYPE
    /\ last.role_binding_id \in DOMAIN role_bindings
    /\ role_bindings[last.role_binding_id].role_type = "DOMAIN_ADMIN"

\* C5: every stored binding is scope-consistent: DOMAIN goes with
\* DOMAIN_ADMIN and workspace_id "*", WORKSPACE with WORKSPACE_OWNER or
\* WORKSPACE_MEMBER and the id of an existing workspace.
C5_ScopeConsistent ==
    \A i \in DOMAIN role_bindings :
        LET rb == role_bindings[i]
        IN  /\ rb.resource_group = "DOMAIN" =>
                  rb.role_type = "DOMAIN_ADMIN" /\ rb.workspace_id = "*"
            /\ rb.resource_group = "WORKSPACE" =>
                  /\ rb.role_type \in WorkspaceRoleTypes
                  /\ rb.workspace_id \in Workspaces

\* a DOMAIN and a WORKSPACE binding are stored after an update_role
C5_Witness ==
    /\ last.op = "update_role" /\ last.error = OK
    /\ \E i \in DOMAIN role_bindings :
          role_bindings[i].resource_group = "DOMAIN"
    /\ \E i \in DOMAIN role_bindings :
          role_bindings[i].resource_group = "WORKSPACE"

\* C6: a successful WORKSPACE create never leaves the user at
\* WORKSPACE_OWNER or WORKSPACE_MEMBER, a USER stays USER and a DOMAIN_ADMIN
\* stays DOMAIN_ADMIN; a successful DOMAIN create leaves the user at
\* DOMAIN_ADMIN.
C6_CreateAggregate ==
    [][(last'.op = "create" /\ last'.error = OK) =>
          LET u == last'.user_id
          IN  /\ last'.resource_group = "WORKSPACE" =>
                    /\ users'[u] \notin WorkspaceRoleTypes
                    /\ users[u] = "USER" => users'[u] = "USER"
                    /\ users[u] = "DOMAIN_ADMIN" =>
                          users'[u] = "DOMAIN_ADMIN"
              /\ last'.resource_group = "DOMAIN" =>
                    users'[u] = "DOMAIN_ADMIN"]_vars

\* a WORKSPACE binding was created for a user who is DOMAIN_ADMIN
C6_Witness ==
    /\ last.op = "create" /\ last.error = OK
    /\ last.resource_group = "WORKSPACE"
    /\ users[last.user_id] = "DOMAIN_ADMIN"

\* C7: after a successful delete, a user who holds no other binding, or only
\* WORKSPACE_OWNER / WORKSPACE_MEMBER bindings, is at USER; the deleted
\* binding, still stored when the recomputation runs, does not count.
C7_DeleteResetsToUser ==
    [][(last'.op = "delete" /\ last'.error = OK) =>
          LET u == last'.user_id
              others == HeldBy(u) \ {last'.role_binding_id}
          IN  /\ last'.role_binding_id \in HeldBy(u)
              /\ (\A i \in others :
                      role_bindings[i].role_type \in WorkspaceRoleTypes)
                    => users'[u] = "USER"]_vars

\* a DOMAIN_ADMIN binding was deleted and its user, who still holds a
\* workspace binding, is at USER
C7_Witness ==
    /\ last.op = "delete" /\ last.error = OK
    /\ last.role_type = "DOMAIN_ADMIN"
    /\ HeldBy(last.user_id) # {}
    /\ users[last.user_id] = "USER"

\* C8: for every outcome of an operation, either both the user write and the
\* binding write have taken effect or neither has.
C8_WritesAreOneUnit ==
    pc = "idle" => (last.user_written <=> last.binding_written)

\* C9: within one operation the user write comes before the binding write.
C9_UserWriteFirst ==
    [][/\ (last'.binding_written /\ ~last.binding_written)
            => (pc = "writing" /\ last.user_written)
       /\ role_bindings' # role_bindings
            => (pc = "writing" /\ last.user_written)
       /\ (last'.user_written /\ ~last.user_written)
            => ~last'.binding_written]_vars

\* an operation is between its user write and its binding write
C9_Witness ==
    /\ pc = "writing"
    /\ last.user_written
    /\ ~last.binding_written

\* C10: in every state, the states between the two writes of an operation
\* included, every stored DOMAIN_ADMIN binding belongs to a user whose
\* stored role_type is DOMAIN_ADMIN.
C10_NoBindingWithoutAggregate ==
    \A i \in DOMAIN role_bindings :
        role_bindings[i].role_type = "DOMAIN_ADMIN" =>
            users[role_bindings[i].user_id] = "DOMAIN_ADMIN"

\* two calls, one creating a DOMAIN_ADMIN binding (d) and one a workspace
\* binding (w) for the same user, have both returned
BothCreated(d, w) ==
    /\ d # w
    /\ calls[d].pc = "done" /\ calls[d].error = OK
    /\ calls[w].pc = "done" /\ calls[w].error = OK
    /\ calls[d].params.user_id = calls[w].params.user_id
    /\ RoleStore[calls[d].params.role_id] = "DOMAIN_ADMIN"
    /\ RoleStore[calls[w].params.role_id] \in WorkspaceRoleTypes

\* C11: the read-recompute-write of role_type is not isolated: of two
\* concurrent creates for one user, one DOMAIN_ADMIN and one workspace-scope,
\* both bindings end up stored, and the user's role_type differs from the
\* fold over both exactly when the workspace create read the user before the
\* DOMAIN_ADMIN create wrote it and wrote it last; the user is then at USER
\* while holding a DOMAIN_ADMIN binding.
C11_LostUpdate ==
    \A d \in Calls, w \in Calls :
        BothCreated(d, w) =>
            LET u == calls[d].params.user_id
                lost == users[u] # FoldLeft(HeldRoleTypes(u), "USER")
            IN  /\ Cardinality(HeldBy(u)) = 2
                /\ lost <=> /\ last_user_writer[u] = w
                            /\ calls[w].user_vo_role_type # "DOMAIN_ADMIN"
                /\ lost => users[u] = "USER"

\* both bindings are stored and the user is at USER
C11_Witness ==
    \E d \in Calls, w \in Calls :
        /\ BothCreated(d, w)
        /\ Cardinality(HeldBy(calls[d].params.user_id)) = 2
        /\ users[calls[d].params.user_id] = "USER"
        /\ \E i \in HeldBy(calls[d].params.user_id) :
              role_bindings[i].role_type = "DOMAIN_ADMIN"

\* the step is the MFA operation op on user u
MfaStep(op, u) == mfa_last'.op = op /\ mfa_last'.user_id = u

\* C12: a successful enable_mfa (non-empty options, mfa_type EMAIL, state not
\* ENABLED) stores the given mfa_type and options with state DISABLED;
\* enable_mfa never sets the state to ENABLED, which only a successful
\* confirm_mfa does.
C12_EnableStoresDisabled ==
    [][\A u \in UserIds :
          /\ (MfaStep("enable_mfa", u) /\ mfa_last'.error = OK) =>
                /\ mfa_last'.options # EmptyOptions
                /\ mfa_last'.mfa_type = "EMAIL"
                /\ user_mfa_state(mfa[u]) # "ENABLED"
                /\ mfa'[u] = [present |-> TRUE, state |-> "DISABLED",
                              mfa_type |-> mfa_last'.mfa_type,
                              options |-> mfa_last'.options]
          /\ (mfa[u].state # "ENABLED" /\ mfa'[u].state = "ENABLED") =>
                /\ MfaStep("confirm_mfa", u)
                /\ mfa_last'.error = OK]_vars

\* enable_mfa has succeeded on a user whose MFA had been confirmed and then
\* disabled before
C12_Witness ==
    /\ mfa_last.op = "enable_mfa" /\ mfa_last.error = OK
    /\ mfa_last.before.present
    /\ mfa[mfa_last.user_id].state = "DISABLED"
    /\ mfa[mfa_last.user_id].options = "options-b"

\* C13: enable_mfa on a user whose state is ENABLED fails with
\* MfaAlreadyEnabled, for any non-empty options and any mfa_type, and leaves
\* the stored MFA records unchanged.
C13_EnableOnEnabled ==
    [][\A u \in UserIds :
          (/\ MfaStep("enable_mfa", u)
           /\ mfa[u].state = "ENABLED"
           /\ mfa_last'.options # EmptyOptions) =>
                /\ mfa_last'.error = ERROR_MFA_ALREADY_ENABLED
                /\ mfa' = mfa]_vars

\* enable_mfa with an unregistered mfa_type was refused on an ENABLED user
C13_Witness ==
    /\ mfa_last.op = "enable_mfa"
    /\ mfa_last.error = ERROR_MFA_ALREADY_ENABLED
    /\ mfa_last.mfa_type = "OTP"
    /\ mfa[mfa_last.user_id].state = "ENABLED"

\* C14: disable_mfa fails with MfaAlreadyDisabled whenever the user has no
\* MFA record, the state is DISABLED or mfa_type is unset; failing or not, it
\* leaves the stored MFA records unchanged, so the state is still ENABLED
\* after a successful disable_mfa.
C14_DisableWritesNothing ==
    [][\A u \in UserIds :
          MfaStep("disable_mfa", u) =>
                /\ mfa' = mfa
                /\ (\/ ~mfa[u].present
                    \/ mfa[u].state = "DISABLED"
                    \/ mfa[u].mfa_type = None)
                      => mfa_last'.error = ERROR_MFA_ALREADY_DISABLED
                /\ mfa_last'.error \in {OK, ERROR_MFA_ALREADY_DISABLED}
                /\ mfa_last'.error = OK => mfa'[u].state = "ENABLED"]_vars

\* disable_mfa has succeeded and the state is still ENABLED
C14_Witness ==
    /\ mfa_last.op = "disable_mfa" /\ mfa_last.error = OK
    /\ mfa_last.notice_sent
    /\ mfa[mfa_last.user_id].state = "ENABLED"

Flipped(state) == IF state = "ENABLED" THEN "DISABLED" ELSE "ENABLED"

\* the latest operation is a confirm_mfa with an accepted code on a user
\* with a configured mfa_type
AcceptedConfirm ==
    /\ mfa_last.op = "confirm_mfa"
    /\ mfa_last.code_accepted
    /\ mfa_last.before.present
    /\ mfa_last.before.mfa_type # None

\* the latest operation is a confirm_mfa with an accepted code that follows
\* a successful confirm_mfa of the same user
SecondAcceptedConfirm ==
    /\ mfa_last.op = "confirm_mfa"
    /\ mfa_last.code_accepted
    /\ mfa_last.prev_op = "confirm_mfa"
    /\ mfa_last.prev_error = OK
    /\ mfa_last.prev_user_id = mfa_last.user_id

\* C15 as stated: from either state, a confirm_mfa with a correct code flips
\* the state, and a second one right after it flips the state back.
C15_SecondConfirmFlipsBack ==
    /\ AcceptedConfirm =>
          /\ mfa_last.error = OK
          /\ mfa[mfa_last.user_id].state = Flipped(mfa_last.before.state)
    /\ SecondAcceptedConfirm =>
          /\ mfa_last.error = OK
          /\ mfa[mfa_last.user_id].state = mfa_last.prev_before.state

\* C15: a confirm_mfa with a correct code on a user with a configured
\* mfa_type flips the state. A second one right after it flips DISABLED ->
\* ENABLED back to DISABLED; after ENABLED -> DISABLED, which removed the
\* mfa_type, it fails with MfaNotEnabled and the state stays DISABLED.
C15_ConfirmToggles ==
    /\ AcceptedConfirm =>
          /\ mfa_last.error = OK
          /\ mfa[mfa_last.user_id].state = Flipped(mfa_last.before.state)
    /\ SecondAcceptedConfirm =>
          IF mfa_last.prev_before.state = "DISABLED"
          THEN /\ mfa_last.error = OK
               /\ mfa[mfa_last.user_id].state = "DISABLED"
          ELSE /\ mfa_last.error = ERROR_MFA_NOT_ENABLED
               /\ mfa[mfa_last.user_id].state = "DISABLED"
               /\ mfa[mfa_last.user_id] = mfa_last.before

\* a second confirm_mfa with an accepted code, after one that disabled MFA
C15_Witness ==
    /\ SecondAcceptedConfirm
    /\ mfa_last.prev_before.state = "ENABLED"
    /\ mfa_last.error = ERROR_MFA_NOT_ENABLED

\* C16: a confirm_mfa whose code the verification strategy rejects fails with
\* InvalidVerifyCode and leaves the stored MFA records unchanged.
C16_RejectedCode ==
    [][\A u \in UserIds :
          (/\ MfaStep("confirm_mfa", u)
           /\ mfa[u].present /\ mfa[u].mfa_type # None
           /\ ~mfa_last'.code_accepted) =>
                /\ mfa_last'.error = ERROR_INVALID_VERIFY_CODE
                /\ mfa' = mfa]_vars

\* a code was rejected while the user's MFA was ENABLED
C16_Witness ==
    /\ mfa_last.op = "confirm_mfa"
    /\ mfa_last.error = ERROR_INVALID_VERIFY_CODE
    /\ mfa[mfa_last.user_id].state = "ENABLED"

\* C17: confirm_mfa on a user with no configured mfa_type, a user with no
\* MFA sub-record included, fails with MfaNotEnabled and changes nothing.
C17_ConfirmWithoutMfaType ==
    (/\ mfa_last.op = "confirm_mfa"
     /\ mfa_last.before.mfa_type = None) =>
        /\ mfa_last.error = ERROR_MFA_NOT_ENABLED
        /\ mfa[mfa_last.user_id] = mfa_last.before

\* C18: enable_mfa reports the first failing precondition in the order empty
\* options (RequiredParameter), state ENABLED (MfaAlreadyEnabled), mfa_type
\* other than EMAIL (NotSupportedMfaType); when it fails no code is sent and
\* the stored MFA records are unchanged.
C18_EnableCheckOrder ==
    [][\A u \in UserIds :
          MfaStep("enable_mfa", u) =>
                /\ mfa_last'.error =
                      IF mfa_last'.options = EmptyOptions
                      THEN ERROR_REQUIRED_PARAMETER
                      ELSE IF mfa[u].present /\ mfa[u].state = "ENABLED"
                      THEN ERROR_MFA_ALREADY_ENABLED
                      ELSE IF mfa_last'.mfa_type # "EMAIL"
                      THEN ERROR_NOT_SUPPORTED_MFA_TYPE
                      ELSE OK
                /\ mfa_last'.error # OK =>
                      /\ ~mfa_last'.code_sent
                      /\ mfa' = mfa]_vars

\* enable_mfa with empty options and an unregistered mfa_type was refused on
\* an ENABLED user with RequiredParameter
C18_Witness ==
    /\ mfa_last.op = "enable_mfa"
    /\ mfa_last.options = EmptyOptions
    /\ mfa_last.mfa_type = "OTP"
    /\ mfa_last.error = ERROR_REQUIRED_PARAMETER
    /\ mfa[mfa_last.user_id].state = "ENABLED"

\* the role types a stored binding can have (the role types create and
\* update_role admit)
BindingRoleTypes == {"DOMAIN_ADMIN"} \cup WorkspaceRoleTypes

\* every ordering of the sequence s
Orderings(s) ==
    LET n == Len(s)
        bijections == {f \in [1..n -> 1..n] :
                          \A i, j \in 1..n : f[i] = f[j] => i = j}
    IN  {[i \in 1..n |-> s[f[i]]] : f \in bijections}

\* C19: the recomputation of delete is order-independent: for every multiset
\* of binding role types (DOMAIN_ADMIN, WORKSPACE_OWNER, WORKSPACE_MEMBER) the
\* left fold of _get_latest_role_type seeded with USER gives the same result
\* for every ordering of the bindings.
C19_FoldOrderIndependent ==
    (/\ agg_seed = "USER"
     /\ \A i \in 1..Len(agg_seq) : agg_seq[i] \in BindingRoleTypes) =>
        \A role_types \in Orderings(agg_seq) :
            FoldLeft(role_types, "USER") = agg_out

\* a DOMAIN_ADMIN binding folded between two workspace bindings
C19_Witness ==
    /\ agg_seed = "USER"
    /\ agg_seq = <<"WORKSPACE_OWNER", "DOMAIN_ADMIN", "WORKSPACE_MEMBER">>
    /\ agg_out = "DOMAIN_ADMIN"
    /\ FoldLeft(<<"WORKSPACE_MEMBER", "WORKSPACE_OWNER", "DOMAIN_ADMIN">>,
                "USER") = "DOMAIN_ADMIN"

\* C20: deletion only reduces privilege: in every state reachable by atomic
\* create, update_role and delete from users at USER with no bindings, a
\* successful delete never leaves the user's role_type with a lower priority
\* number (DOMAIN_ADMIN 1, WORKSPACE_OWNER 2, WORKSPACE_MEMBER 3, USER 4)
\* than it had immediately before the delete.
C20_DeleteOnlyReduces ==
    [][(last'.op = "delete" /\ last'.error = OK) =>
          LET u == last'.user_id
          IN  SpecifiedPriority(users'[u]) >= SpecifiedPriority(users[u])]_vars

\* a workspace binding was deleted from a user who holds a DOMAIN_ADMIN
\* binding and stays at DOMAIN_ADMIN
C20_Witness ==
    /\ last.op = "delete" /\ last.error = OK
    /\ last.role_type \in WorkspaceRoleTypes
    /\ \E i \in HeldBy(last.user_id) :
          role_bindings[i].role_type = "DOMAIN_ADMIN"
    /\ users[last.user_id] = "DOMAIN_ADMIN"

\* C21: an account that carries SYSTEM_ADMIN or SYSTEM keeps that role_type
\* across create, update_role and delete on its bindings, the delete of its
\* last binding included: it is never replaced with USER or DOMAIN_ADMIN.
C21_PrivilegedRoleTypeKept ==
    \A u \in UserIds : users[u] = PrivilegedUsers[u]

\* the binding a create with params stores, under the id role_binding_id
CreatedBinding(params, role_binding_id) ==
    [role_binding_id |-> role_binding_id,
     user_id |-> params.user_id,
     role_id |-> params.role_id,
     role_type |-> RoleStore[params.role_id],
     resource_group |-> params.resource_group,
     workspace_id |-> create_workspace_id(params),
     domain_id |-> params.domain_id]

\* the params of a create that stored the binding rb; for a DOMAIN binding
\* the workspace_id of the request is not stored and may have been any
RepeatOf(rb, workspace_id) ==
    [user_id |-> rb.user_id,
     role_id |-> rb.role_id,
     resource_group |-> rb.resource_group,
     workspace_id |-> IF rb.resource_group = "WORKSPACE"
                      THEN rb.workspace_id ELSE workspace_id,
     domain_id |-> rb.domain_id]

\* C22: create performs no duplicate detection: a create with the same
\* (user_id, role_id, resource_group, workspace_id) as an earlier one succeeds
\* too and adds a binding with a new id; after the delete of one of two
\* duplicate DOMAIN_ADMIN bindings the user is still at DOMAIN_ADMIN, and the
\* user is at USER only once the last DOMAIN_ADMIN binding is deleted.
C22_NoDuplicateDetection ==
    [][/\ last'.op = "create" =>
             \A j \in DOMAIN role_bindings, workspace_id \in ReqWorkspaces :
               LET rb == role_bindings[j]
                   params == RepeatOf(rb, workspace_id)
               IN
               (/\ last'.user_id = rb.user_id
                /\ last'.resource_group = rb.resource_group
                /\ last'.role_type = rb.role_type
                /\ create(params)) =>
                 /\ rb = CreatedBinding(params, j)
                 /\ last'.error = OK
                 /\ next_id \notin DOMAIN role_bindings
                 /\ DOMAIN role_bindings' = DOMAIN role_bindings \cup {next_id}
                 /\ \A i \in DOMAIN role_bindings :
                        role_bindings'[i] = role_bindings[i]
                 /\ role_bindings'[next_id] = CreatedBinding(params, next_id)
       /\ (/\ last'.op = "delete" /\ last'.error = OK
           /\ last'.role_type = "DOMAIN_ADMIN") =>
             LET u == last'.user_id
                 deleted == role_bindings[last'.role_binding_id]
                 rest == HeldBy(u) \ {last'.role_binding_id}
                 duplicates ==
                     {i \in rest :
                         role_bindings[i] =
                             [deleted EXCEPT !.role_binding_id = i]}
                 domain_admin ==
                     {i \in rest :
                         role_bindings[i].role_type = "DOMAIN_ADMIN"}
             IN  /\ duplicates # {} => users'[u] = "DOMAIN_ADMIN"
                 /\ users'[u] = "USER" <=> domain_admin = {}]_vars

\* a second create with the same parameters has stored a second
\* DOMAIN_ADMIN binding, equal to the first but for its id
C22_Witness ==
    /\ last.op = "create" /\ last.error = OK
    /\ DOMAIN role_bindings = {1, 2}
    /\ role_bindings[1].role_type = "DOMAIN_ADMIN"
    /\ role_bindings[2] = [role_bindings[1] EXCEPT !.role_binding_id = 2]
    /\ users[role_bindings[1].user_id] = "DOMAIN_ADMIN"

\* C23: a successful update_role changes only the binding's role_id and
\* role_type, setting them to the requested role and that role's type as of
\* the call; the binding's role_binding_id, user_id, resource_group,
\* workspace_id and domain_id are unchanged, and no other binding is
\* modified.
C23_UpdateRoleFrame ==
    [][(last'.op = "update_role" /\ last'.error = OK) =>
          LET j == last'.role_binding_id
              rb == role_bindings[j]
          IN  /\ j \in DOMAIN role_bindings
              /\ DOMAIN role_bindings' = DOMAIN role_bindings
              /\ next_id' = next_id
              /\ \A i \in DOMAIN role_bindings \ {j} :
                    role_bindings'[i] = role_bindings[i]
              /\ role_bindings'[j] =
                    [rb EXCEPT !.role_id = role_bindings'[j].role_id,
                               !.role_type = role_bindings'[j].role_type]
              /\ role_bindings'[j].role_type = last'.role_type
              /\ \A role_id \in ReqRoleIds, workspace_id \in ReqWorkspaces :
                    update_role([role_binding_id |-> j,
                                 role_id |-> role_id,
                                 workspace_id |-> workspace_id,
                                 domain_id |-> rb.domain_id]) =>
                        /\ role_bindings'[j].role_id = role_id
                        /\ role_bindings'[j].role_type = RoleStore[role_id]
       ]_vars

\* an update_role has moved a binding to the WORKSPACE_MEMBER role while
\* another binding is stored
C23_Witness ==
    /\ last.op = "update_role" /\ last.error = OK
    /\ last.role_type = "WORKSPACE_MEMBER"
    /\ role_bindings[last.role_binding_id].role_id = "role-wm"
    /\ Cardinality(DOMAIN role_bindings) = 2

\* C24: after any sequence of enable_mfa, disable_mfa and confirm_mfa on
\* users that start with no MFA record, whenever the state is ENABLED the
\* record has mfa_type EMAIL and non-empty options; the state (DISABLED for a
\* user with no record) changes only by a successful confirm_mfa whose code
\* was accepted.
C24_EnabledIsConfigured ==
    /\ [](\A u \in UserIds :
             mfa[u].state = "ENABLED" =>
                 /\ mfa[u].mfa_type = "EMAIL"
                 /\ mfa[u].options \notin {EmptyOptions, None})
    /\ [][\A u \in UserIds :
             user_mfa_state(mfa'[u]) # user_mfa_state(mfa[u]) =>
                 /\ MfaStep("confirm_mfa", u)
                 /\ mfa_last'.code_accepted
                 /\ mfa_last'.error = OK]_vars

\* a confirm_mfa right after an enable_mfa has set the state to ENABLED
C24_Witness ==
    /\ mfa_last.op = "confirm_mfa" /\ mfa_last.error = OK
    /\ mfa_last.prev_op = "enable_mfa" /\ mfa_last.prev_error = OK
    /\ mfa[mfa_last.user_id] =
          [present |-> TRUE, state |-> "ENABLED", mfa_type |-> "EMAIL",
           options |-> "options-a"]

\* C25: a successful confirm_mfa that moves the state from DISABLED to
\* ENABLED leaves mfa_type and options unchanged; one that moves it from
\* ENABLED to DISABLED replaces the record with one made of state DISABLED
\* alone, without the mfa_type and the options it had; no other user's
\* record changes.
C25_ConfirmFrame ==
    [][\A u \in UserIds :
          (MfaStep("confirm_mfa", u) /\ mfa_last'.error = OK) =>
              /\ mfa[u].state = "DISABLED" =>
                    /\ mfa'[u].state = "ENABLED"
                    /\ mfa'[u].mfa_type = mfa[u].mfa_type
                    /\ mfa'[u].options = mfa[u].options
              /\ mfa[u].state = "ENABLED" =>
                    /\ mfa'[u] = StateDisabledOnly
                    /\ mfa'[u].mfa_type # mfa[u].mfa_type
                    /\ mfa'[u].options # mfa[u].options
              /\ mfa[u].state \in {"DISABLED", "ENABLED"}
              /\ \A v \in UserIds \ {u} : mfa'[v] = mfa[v]]_vars

\* a confirm_mfa has moved a user from ENABLED with options to the record
\* made of state DISABLED alone
C25_Witness ==
    /\ mfa_last.op = "confirm_mfa" /\ mfa_last.error = OK
    /\ mfa_last.before.state = "ENABLED"
    /\ mfa_last.before.options = "options-b"
    /\ mfa[mfa_last.user_id] = StateDisabledOnly

====
